---- MODULE Spec2Model ----
(***************************************************************************)
(* A model of libambit.c: the enumeration of HID interfaces into identity  *)
(* records, the lifecycle of a session object (libambit_new, the           *)
(* capability calls, libambit_close) and the release of a log entry.       *)
(*                                                                         *)
(* Memory is modelled as three heaps (strs, infos, objs); an address is an *)
(* index into its heap, NULL is 0, and every cell counts how often it has  *)
(* been passed to free().  Transport handles and file descriptors live in  *)
(* handles.  log holds the externally visible calls of the API call that   *)
(* is running or ran last, in the order the code makes them.               *)
(***************************************************************************)
EXTENDS Integers, Sequences, FiniteSets, TLC

VARIABLES
    devs,       \* what hid_enumerate(0, 0) lists: the raw interface descriptors
    strs,       \* heap of path strings: [val, frees]
    infos,      \* heap of ambit_device_info_t
    objs,       \* heap of ambit_object_t
    handles,    \* hid_device handles and file descriptors: [kind, path, closes, ...]
    pc,         \* position of the running API call ("idle" between calls)
    caller,     \* who runs libambit_enumerate: "client" or "from_pathname"
    arg,        \* the pathname argument of libambit_new_from_pathname
    cur,        \* libambit_enumerate: index of `current` in devs
    devices,    \* libambit_enumerate: the accumulator `devices`
    list,       \* the client's record list (the last libambit_enumerate result)
    session,    \* the client's session (the last non-null libambit_new result)
    ret,        \* the value the last API call returned
    last,       \* name and argument of the last API call
    log,        \* the calls made by the running / last API call
    out,        \* the output parameter handed to a capability call
    calls,      \* the API functions the client has called; it calls each once
    faults,     \* number of allocations that have failed so far
    entry,      \* the log entry handed to libambit_log_entry_free
    freed,      \* libambit_log_entry_free: the blocks passed to free(), in order
    input,      \* the arguments of a static function called on its own
    output      \* what that function returned and left in its buffers

vars == <<devs, strs, infos, objs, handles, pc, caller, arg, cur, devices,
          list, session, ret, last, log, out, calls, faults, entry, freed,
          input, output>>

enumVars == <<cur, devices>>
logEntryVars == <<entry, freed>>

(***************************************************************************)
(* Bounds of the model.                                                    *)
(***************************************************************************)
MaxDevs == 2            \* descriptors listed by hid_enumerate
MaxFaults == 1          \* allocations that fail in one run
MaxSamples == 2         \* samples of a log entry
MaxWcs == 3             \* wide characters of a string given to wcs2nutf8
MaxBound == 4           \* the bound n given to wcs2nutf8
\* Field widths of ambit_device_info_t (libambit.h), scaled down.
LIBAMBIT_MODEL_NAME_LENGTH == 2
LIBAMBIT_SERIAL_LENGTH == 2
LIBAMBIT_PRODUCT_NAME_LENGTH == 3

NULL == 0
EACCES == 13
E2BIG == 7
EILSEQ == 84
komposti_version == <<2, 0, 45, 0>>

Min(a, b) == IF a < b THEN a ELSE b

(***************************************************************************)
(* C strings and character arrays.  A char array is a sequence of bytes; a *)
(* C string is the bytes before the first NUL.                             *)
(***************************************************************************)
ZeroBuf(n) == [i \in 1..n |-> 0]

\* Number of bytes src holds before its first NUL, looking at no more than n.
StrnLen(src, n) ==
    LET lim == Min(n, Len(src))
    IN  CHOOSE k \in 0..lim :
            /\ \A i \in 1..k : src[i] # 0
            /\ (k = lim \/ src[k + 1] = 0)

CStr(buf) == SubSeq(buf, 1, StrnLen(buf, Len(buf)))

\* strncpy(dst, src, n): copies the string, pads with NUL up to n bytes and
\* leaves dst[n..] alone.
strncpy(dst, src, n) ==
    LET k == StrnLen(src, n)
    IN  [i \in 1..Len(dst) |-> IF i <= k THEN src[i] ELSE IF i <= n THEN 0 ELSE dst[i]]

\* The value of the byte b as a char, which the build makes signed or not.
CharValue(b, signed) == IF signed /\ b > 127 THEN b - 256 ELSE b

\* utf8strncpy: the sanity loop only logs; the copy is strncpy.  These are
\* the positions the loop warns about: those before the first NUL where
\* `0 > src[i] && src[i] > 127` holds.
utf8strncpyWarnings(src, n, signed) ==
    {i \in 1..StrnLen(src, n) :
        0 > CharValue(src[i], signed) /\ CharValue(src[i], signed) > 127}

utf8strncpy(dst, src, n) == strncpy(dst, src, n)

(***************************************************************************)
(* iconv from WCHAR_T to UTF-8, and wcs2nutf8.                             *)
(***************************************************************************)
IsIllegalWc(c) == (c >= 55296 /\ c <= 57343) \/ c > 1114111

Utf8(c) ==
    IF c < 128 THEN <<c>>
    ELSE IF c < 2048 THEN <<192 + (c \div 64), 128 + (c % 64)>>
    ELSE IF c < 65536 THEN
        <<224 + (c \div 4096), 128 + ((c \div 64) % 64), 128 + (c % 64)>>
    ELSE <<240 + (c \div 262144), 128 + ((c \div 4096) % 64),
           128 + ((c \div 64) % 64), 128 + (c % 64)>>

\* iconv(cd, &ibuf, &ilen, &obuf, &olen) on the wide characters in, with olen
\* bytes of output: characters are converted in order until one is illegal
\* (EILSEQ) or does not fit (E2BIG); an illegal character is reported as
\* such also when the output is full.
RECURSIVE iconvFrom(_, _, _, _)
iconvFrom(in, i, outbuf, olen) ==
    IF i > Len(in) THEN [err |-> 0, outbuf |-> outbuf]
    ELSE IF IsIllegalWc(in[i]) THEN [err |-> EILSEQ, outbuf |-> outbuf]
    ELSE IF Len(outbuf) + Len(Utf8(in[i])) > olen THEN [err |-> E2BIG, outbuf |-> outbuf]
    ELSE iconvFrom(in, i + 1, outbuf \o Utf8(in[i]), olen)

iconv(in, olen) == iconvFrom(in, 1, <<>>, olen)

\* The body of the do/while loop run once, without the shrinking.
wcsOnce(src, n, m, tries) ==
    LET r == iconv(SubSeq(src, 1, m - 1), n)
    IN  [s |-> IF r.err # 0 THEN <<>> ELSE r.outbuf, err |-> r.err, tries |-> tries + 1]

\* The do/while loop of wcs2nutf8, entered with m: the C string left in s,
\* the last errno and the number of conversion attempts.
RECURSIVE wcsLoop(_, _, _, _)
wcsLoop(src, n, m, tries) ==
    LET m1 == m - 1
        r == iconv(SubSeq(src, 1, m1), n)
        s == IF r.err # 0 THEN <<>> ELSE r.outbuf
    IN  IF r.err = E2BIG /\ 0 < m1
        THEN wcsLoop(src, n, m1, tries + 1)
        ELSE [s |-> s, err |-> r.err, tries |-> tries + 1]

\* wcs2nutf8(dest, src, n).  ok: iconv_open and malloc both succeed.  rv is
\* the returned string, NULL when nothing was converted.
wcs2nutf8(dest, src, n, ok) ==
    IF ~ok THEN [dest |-> dest, rv |-> NULL, isNull |-> TRUE, tries |-> 0]
    ELSE LET l == wcsLoop(src, n, Len(src) + 1, 0)
         IN  [dest |-> strncpy(dest, l.s, n), rv |-> l.s, isNull |-> FALSE,
              tries |-> l.tries]

LIBAMBIT_VERSION_LENGTH == 13

\* What printf's %d writes for n >= 0: its decimal digits, as characters.
RECURSIVE Decimal(_)
Decimal(n) == IF n < 10 THEN <<48 + n>> ELSE Decimal(n \div 10) \o <<48 + (n % 10)>>

\* snprintf(string, size, ...): no more than size - 1 characters are written.
snprintf(size, text) == SubSeq(text, 1, Min(Len(text), size - 1))

\* version_string with the two bytes of the patch number the other way round.
version_string_big_endian(version) ==
    snprintf(LIBAMBIT_VERSION_LENGTH + 1,
             Decimal(version[1]) \o <<46>> \o Decimal(version[2]) \o <<46>>
                 \o Decimal(version[3] * 256 + version[4]))

\* "%d.%d.%d" of version[0], version[1], version[2] | version[3] << 8.
version_string(version) ==
    snprintf(LIBAMBIT_VERSION_LENGTH + 1,
             Decimal(version[1]) \o <<46>> \o Decimal(version[2]) \o <<46>>
                 \o Decimal(version[3] + 256 * version[4]))

(***************************************************************************)
(* The device registry (device_support.c) and the drivers it binds.  A     *)
(* driver is the set of function pointers it sets; NoDriver is the NULL    *)
(* driver of an entry that is known but not supported.                     *)
(***************************************************************************)
Capabilities == {"date_time_set", "status_get", "personal_settings_get",
                 "gps_orbit_header_read", "gps_orbit_write", "log_read"}
DriverFunctions == {"init", "deinit", "lock_log"} \cup Capabilities

NoDriver == [null |-> TRUE, fns |-> {}]
FullDriver == [null |-> FALSE, fns |-> DriverFunctions]
BareDriver == [null |-> FALSE, fns |-> {"init", "log_read"}]

SUUNTO_USB_VENDOR_ID == 5267

KnownDevices ==
    << [vid |-> SUUNTO_USB_VENDOR_ID, pid |-> 26, model |-> <<70, 105>>,
        min_sw_version |-> <<2, 0, 0, 0>>, name |-> <<65, 50>>,
        supported |-> TRUE, driver |-> FullDriver, driver_param |-> 1024],
       [vid |-> SUUNTO_USB_VENDOR_ID, pid |-> 26, model |-> <<70, 105>>,
        min_sw_version |-> <<0, 0, 0, 0>>, name |-> <<65, 50>>,
        supported |-> FALSE, driver |-> NoDriver, driver_param |-> 0],
       [vid |-> SUUNTO_USB_VENDOR_ID, pid |-> 26, model |-> <<67>>,
        min_sw_version |-> <<0, 0, 0, 0>>, name |-> <<65>>,
        supported |-> TRUE, driver |-> BareDriver, driver_param |-> 512] >>

version_number(v) == v[1] * 16777216 + v[2] * 65536 + v[4] * 256 + v[3]

libambit_device_support_known(vid, pid) ==
    \E k \in 1..Len(KnownDevices) :
        KnownDevices[k].vid = vid /\ KnownDevices[k].pid = pid

MatchingDevices(vid, pid, model, fw_version) ==
    {k \in 1..Len(KnownDevices) :
        /\ KnownDevices[k].vid = vid
        /\ KnownDevices[k].pid = pid
        /\ KnownDevices[k].model = CStr(model)
        /\ version_number(fw_version) >= version_number(KnownDevices[k].min_sw_version)}

\* The index of the first matching entry, NULL when there is none.
libambit_device_support_find(vid, pid, model, fw_version) ==
    LET m == MatchingDevices(vid, pid, model, fw_version)
    IN  IF m = {} THEN NULL ELSE CHOOSE k \in m : \A j \in m : k <= j

(***************************************************************************)
(* Heaps.                                                                  *)
(***************************************************************************)
Free(heap, a) == [heap EXCEPT ![a].frees = @ + 1]

Live(heap, a) == a \in 1..Len(heap) /\ heap[a].frees = 0

Ev(op, a) == [op |-> op, arg |-> a]

NoVersion == <<0, 0, 0, 0>>

\* calloc(1, sizeof(ambit_device_info_t))
ZeroInfo ==
    [path |-> NULL, next |-> NULL, vendor_id |-> 0, product_id |-> 0,
     name |-> ZeroBuf(LIBAMBIT_PRODUCT_NAME_LENGTH + 1),
     model |-> ZeroBuf(LIBAMBIT_MODEL_NAME_LENGTH + 1),
     serial |-> ZeroBuf(LIBAMBIT_SERIAL_LENGTH + 1),
     fw_version |-> NoVersion, hw_version |-> NoVersion,
     is_supported |-> FALSE, access_status |-> 0, frees |-> 0]

\* strcpy(dst, src) for a string that fits.
strcpy(dst, src) ==
    [i \in 1..Len(dst) |-> IF i <= Len(src) THEN src[i]
                           ELSE IF i = Len(src) + 1 THEN 0 ELSE dst[i]]

(***************************************************************************)
(* The raw interface descriptors and what the environment may answer.      *)
(***************************************************************************)
NoWcs == [null |-> TRUE, s |-> <<>>]
Wcs(s) == [null |-> FALSE, s |-> s]

\* What a device answers when it is probed: whether hid_open_path succeeds,
\* the errno of open(path, O_RDWR) (0: it succeeds), whether the device-info
\* command succeeds and the payload of its reply.
World(openOk, errno, replyOk, reply) ==
    [openOk |-> openOk, errno |-> errno, replyOk |-> replyOk, reply |-> reply]

Pad(s, n) == [i \in 1..n |-> IF i <= Len(s) THEN s[i] ELSE 0]

\* The payload of a device-info reply: model, serial, firmware, hardware.
Reply(model, serial, fw, hw) ==
    Pad(model, LIBAMBIT_MODEL_NAME_LENGTH) \o Pad(serial, LIBAMBIT_SERIAL_LENGTH)
        \o fw \o hw

NoReply == ZeroBuf(LIBAMBIT_MODEL_NAME_LENGTH + LIBAMBIT_SERIAL_LENGTH + 8)
SupportedReply == Reply(<<70, 105>>, <<49, 50>>, komposti_version, <<1, 0, 0, 0>>)
OldFirmwareReply == Reply(<<70, 105>>, <<49>>, <<1, 9, 0, 0>>, <<1, 0, 0, 0>>)
BareReply == Reply(<<67>>, <<200, 50>>, <<1, 2, 3, 4>>, <<0, 0, 0, 1>>)
UnknownModelReply == Reply(<<88>>, <<>>, <<1, 0, 0, 0>>, <<1, 0, 0, 0>>)

Replies == {SupportedReply, OldFirmwareReply, BareReply, UnknownModelReply}

Unopenable == World(FALSE, 0, FALSE, NoReply)
NoAccess == World(FALSE, EACCES, FALSE, NoReply)
Mute == World(TRUE, 0, FALSE, NoReply)
Answers(r) == World(TRUE, 0, TRUE, r)

Worlds == {Unopenable, NoAccess, Mute} \cup {Answers(r) : r \in Replies}

\* A descriptor without its path, which is i for devs[i], or NULL.
Kind(hasPath, ids, product_string, serial_number, world) ==
    [hasPath |-> hasPath, ids |-> ids, product_string |-> product_string,
     serial_number |-> serial_number, world |-> world]

KnownIds == <<SUUNTO_USB_VENDOR_ID, 26>>
UnknownIds == <<SUUNTO_USB_VENDOR_ID, 99>>

\* The interfaces the enumeration is checked on ...
DeviceKinds ==
    {Kind(TRUE, KnownIds, NoWcs, NoWcs, w) : w \in Worlds}
    \cup {Kind(TRUE, KnownIds, Wcs(<<66, 233>>), Wcs(<<49>>), w)
            : w \in {NoAccess, Mute, Answers(SupportedReply)}}
    \cup {Kind(TRUE, UnknownIds, Wcs(<<66, 233>>), NoWcs, Answers(SupportedReply)),
          Kind(FALSE, KnownIds, NoWcs, NoWcs, Answers(SupportedReply))}

\* ... and those the lifecycle of a session is checked on.
LifecycleKinds ==
    {Kind(TRUE, KnownIds, NoWcs, NoWcs, w)
        : w \in {Unopenable, NoAccess, Answers(SupportedReply),
                 Answers(OldFirmwareReply)}}
    \cup {Kind(TRUE, UnknownIds, NoWcs, NoWcs, Answers(SupportedReply))}

Descriptor(i, d) ==
    [path |-> IF d.hasPath THEN i ELSE NULL,
     vendor_id |-> d.ids[1], product_id |-> d.ids[2],
     product_string |-> d.product_string, serial_number |-> d.serial_number,
     world |-> d.world]

DescriptorLists(kinds) ==
    UNION {{[i \in 1..n |-> Descriptor(i, f[i])] : f \in [1..n -> kinds]}
           : n \in 0..MaxDevs}

\* Which allocations succeed while one descriptor is processed: strdup, calloc
\* and those of the two wcs2nutf8 calls (iconv_open, malloc).
Environments == [strdupOk : BOOLEAN, callocOk : BOOLEAN, nameOk : BOOLEAN,
                 uniqOk : BOOLEAN]

B2N(b) == IF b THEN 1 ELSE 0

(***************************************************************************)
(* ambit_device_info_new(dev) for dev = devs[i] under the environment e:   *)
(* the record it returns (tmp, NULL when there is none), the heaps and the *)
(* calls it makes.                                                         *)
(***************************************************************************)
\* device_info_get without `p += LIBAMBIT_MODEL_NAME_LENGTH`.
device_info_get_no_advance(info, reply_data) ==
    LET p2 == SubSeq(reply_data, LIBAMBIT_SERIAL_LENGTH + 1, Len(reply_data))
    IN  [info EXCEPT
            !.model = [utf8strncpy(@, reply_data, LIBAMBIT_MODEL_NAME_LENGTH)
                          EXCEPT ![LIBAMBIT_MODEL_NAME_LENGTH + 1] = 0],
            !.serial = [utf8strncpy(@, reply_data, LIBAMBIT_SERIAL_LENGTH)
                          EXCEPT ![LIBAMBIT_SERIAL_LENGTH + 1] = 0],
            !.fw_version = SubSeq(p2, 1, 4),
            !.hw_version = SubSeq(p2, 5, 8)]

\* device_info_get(&obj, info) on a reply that arrived: the fields of info.
device_info_get(info, reply_data) ==
    LET p1 == SubSeq(reply_data, LIBAMBIT_MODEL_NAME_LENGTH + 1, Len(reply_data))
        p2 == SubSeq(p1, LIBAMBIT_SERIAL_LENGTH + 1, Len(p1))
    IN  [info EXCEPT
            !.model = [utf8strncpy(@, reply_data, LIBAMBIT_MODEL_NAME_LENGTH)
                          EXCEPT ![LIBAMBIT_MODEL_NAME_LENGTH + 1] = 0],
            !.serial = [utf8strncpy(@, p1, LIBAMBIT_SERIAL_LENGTH)
                          EXCEPT ![LIBAMBIT_SERIAL_LENGTH + 1] = 0],
            !.fw_version = SubSeq(p2, 1, 4),
            !.hw_version = SubSeq(p2, 5, 8)]

\* Lines 481-488: the second registry lookup and what it sets.
AdoptKnownDevice(info) ==
    LET k == libambit_device_support_find(info.vendor_id, info.product_id,
                                          info.model, info.fw_version)
    IN  IF k = NULL THEN info
        ELSE [info EXCEPT
                !.is_supported = KnownDevices[k].supported,
                !.name = IF CStr(@) # KnownDevices[k].name
                         THEN strcpy(@, KnownDevices[k].name) ELSE @]

\* Lines 448-450 alone: the bus strings are not transcoded into the record.
InfoWithoutBusStrings(dev, p, e) ==
    [ZeroInfo EXCEPT !.path = p, !.vendor_id = dev.vendor_id,
                     !.product_id = dev.product_id]

\* Lines 448-460: the record after the bus strings have been transcoded.
InfoFromDescriptor(dev, p, e) ==
    LET d0 == [ZeroInfo EXCEPT !.path = p, !.vendor_id = dev.vendor_id,
                               !.product_id = dev.product_id]
        d1 == IF dev.product_string.null THEN d0
              ELSE [d0 EXCEPT !.name = wcs2nutf8(@, dev.product_string.s,
                                           LIBAMBIT_PRODUCT_NAME_LENGTH, e.nameOk).dest]
    IN  IF dev.serial_number.null THEN d1
        ELSE [d1 EXCEPT !.serial = wcs2nutf8(@, dev.serial_number.s,
                                       LIBAMBIT_SERIAL_LENGTH, e.uniqOk).dest]

\* The probe if a record that cannot be opened but can be accessed took the
\* support flag from the registry's first answer.
ProbeTrustingRegistry(i, info, e) ==
    LET h == Len(handles) + 1
    IN  IF e.openOk
        THEN [info |-> IF e.replyOk THEN AdoptKnownDevice(device_info_get(info, e.reply))
                       ELSE info,
              handles |-> Append(handles, [kind |-> "hid", path |-> i, closes |-> 1,
                                           nonblocking |-> FALSE]),
              log |-> <<Ev("hid_open_path", i), Ev("device_info_get", i)>>
                      \o (IF e.replyOk THEN <<Ev("device_support_find", i)>> ELSE <<>>)
                      \o <<Ev("hid_close", i)>>]
        ELSE IF e.errno # 0
        THEN [info |-> [info EXCEPT !.access_status = e.errno],
              handles |-> handles,
              log |-> <<Ev("hid_open_path", i), Ev("open", i)>>]
        ELSE [info |-> [info EXCEPT !.is_supported = TRUE],
              handles |-> Append(handles, [kind |-> "fd", path |-> i, closes |-> 1,
                                           nonblocking |-> FALSE]),
              log |-> <<Ev("hid_open_path", i), Ev("open", i), Ev("close", i)>>]

\* The probe with hid_close inside the branch of a device-info reply.
ProbeClosingOnReply(i, info, e) ==
    LET h == Len(handles) + 1
    IN  IF e.openOk
        THEN [info |-> IF e.replyOk THEN AdoptKnownDevice(device_info_get(info, e.reply))
                       ELSE info,
              handles |-> Append(handles, [kind |-> "hid", path |-> i,
                                           closes |-> IF e.replyOk THEN 1 ELSE 0,
                                           nonblocking |-> FALSE]),
              log |-> <<Ev("hid_open_path", i), Ev("device_info_get", i)>>
                      \o (IF e.replyOk
                          THEN <<Ev("device_support_find", i), Ev("hid_close", i)>>
                          ELSE <<>>)]
        ELSE IF e.errno # 0
        THEN [info |-> [info EXCEPT !.access_status = e.errno],
              handles |-> handles,
              log |-> <<Ev("hid_open_path", i), Ev("open", i)>>]
        ELSE [info |-> info,
              handles |-> Append(handles, [kind |-> "fd", path |-> i, closes |-> 1,
                                           nonblocking |-> FALSE]),
              log |-> <<Ev("hid_open_path", i), Ev("open", i), Ev("close", i)>>]

\* Lines 466-525: the probe of the record info of devs[i], which answers as e.
Probe(i, info, e) ==
    LET h == Len(handles) + 1
    IN  IF e.openOk
        THEN [info |-> IF e.replyOk THEN AdoptKnownDevice(device_info_get(info, e.reply))
                       ELSE info,
              handles |-> Append(handles, [kind |-> "hid", path |-> i, closes |-> 1,
                                           nonblocking |-> FALSE]),
              log |-> <<Ev("hid_open_path", i), Ev("device_info_get", i)>>
                      \o (IF e.replyOk THEN <<Ev("device_support_find", i)>> ELSE <<>>)
                      \o <<Ev("hid_close", i)>>]
        ELSE IF e.errno # 0
        THEN [info |-> [info EXCEPT !.access_status = e.errno],
              handles |-> handles,
              log |-> <<Ev("hid_open_path", i), Ev("open", i)>>]
        ELSE [info |-> info,
              handles |-> Append(handles, [kind |-> "fd", path |-> i, closes |-> 1,
                                           nonblocking |-> FALSE]),
              log |-> <<Ev("hid_open_path", i), Ev("open", i), Ev("close", i)>>]

\* The filter without the registry's answer.
RejectedOnlyWithoutPath(dev) == dev.path = NULL

\* Lines 425-437: no record for a descriptor without a path or with ids the
\* registry does not know.
Rejected(dev) ==
    dev.path = NULL \/ ~libambit_device_support_known(dev.vendor_id, dev.product_id)

\* The allocations that fail while devs[i] is processed under e; Failing(e)
\* counts those e holds.
Failures(i, e) ==
    LET dev == devs[i]
    IN  IF Rejected(dev) THEN 0
        ELSE IF ~e.strdupOk THEN 1
        ELSE IF ~e.callocOk THEN 1
        ELSE B2N(~e.nameOk /\ ~dev.product_string.null)
             + B2N(~e.uniqOk /\ ~dev.serial_number.null)

Failing(e) == B2N(~e.strdupOk) + B2N(~e.callocOk) + B2N(~e.nameOk) + B2N(~e.uniqOk)

ambit_device_info_new(i, e) ==
    LET dev == devs[i]
        p == Len(strs) + 1
        t == Len(infos) + 1
        strs1 == Append(strs, [val |-> dev.path, frees |-> 0])
        none == [tmp |-> NULL, strs |-> strs, infos |-> infos, handles |-> handles,
                 log |-> log]
    IN  IF dev.path = NULL THEN none
        ELSE IF Rejected(dev)
        THEN [none EXCEPT !.log = log \o <<Ev("device_support_known", i)>>]
        ELSE IF ~e.strdupOk
        THEN [none EXCEPT !.log = log \o <<Ev("device_support_known", i),
                                           Ev("strdup_failed", i)>>]
        ELSE IF ~e.callocOk
        THEN [none EXCEPT !.strs = Free(strs1, p),
                          !.log = log \o <<Ev("device_support_known", i),
                                           Ev("strdup", i), Ev("calloc_failed", i),
                                           Ev("free_path", i)>>]
        ELSE LET pr == Probe(i, InfoFromDescriptor(dev, p, e), dev.world)
             IN  [tmp |-> t, strs |-> strs1, infos |-> Append(infos, pr.info),
                  handles |-> pr.handles,
                  log |-> log \o <<Ev("device_support_known", i), Ev("strdup", i),
                                   Ev("calloc", i)>> \o pr.log \o <<Ev("record", i)>>]

(***************************************************************************)
(* libambit_enumerate, one descriptor per step.                            *)
(***************************************************************************)
\* The loop body if a descriptor without a record emptied the accumulator.
AccumulateOrReset(heap, acc, tmp) ==
    IF tmp = NULL THEN [infos |-> heap, devices |-> NULL]
    ELSE IF acc # NULL THEN [infos |-> [heap EXCEPT ![tmp].next = acc], devices |-> acc]
    ELSE [infos |-> heap, devices |-> tmp]

\* Lines 76-83: what the loop does with tmp.
Accumulate(heap, acc, tmp) ==
    IF tmp = NULL THEN [infos |-> heap, devices |-> acc]
    ELSE IF acc # NULL THEN [infos |-> [heap EXCEPT ![tmp].next = acc], devices |-> acc]
    ELSE [infos |-> heap, devices |-> tmp]

\* The client discovers the devices once, by either call that enumerates.
Discovered == calls \cap {"libambit_enumerate", "libambit_new_from_pathname"} # {}

\* Lines 60-72: hid_enumerate; no descriptors is "no devices".
EnterEnumerate(who) ==
    /\ log' = <<>>
    /\ caller' = who
    /\ devices' = NULL
    /\ IF Len(devs) = 0
       THEN /\ cur' = 0
            /\ pc' = IF who = "client" THEN "idle" ELSE "search"
            /\ list' = IF who = "client" THEN NULL ELSE list
            /\ ret' = IF who = "client" THEN NULL ELSE ret
       ELSE /\ cur' = 1
            /\ pc' = "enumerate"
            /\ UNCHANGED <<list, ret>>

\* Lines 73-85: one turn of the loop.
EnumerateStep ==
    /\ pc = "enumerate"
    /\ cur <= Len(devs)
    /\ \E e \in Environments :
        /\ Failing(e) = Failures(cur, e)
        /\ faults + Failures(cur, e) <= MaxFaults
        /\ faults' = faults + Failures(cur, e)
        /\ LET r == ambit_device_info_new(cur, e)
               a == Accumulate(r.infos, devices, r.tmp)
           IN  /\ strs' = r.strs
               /\ infos' = a.infos
               /\ devices' = a.devices
               /\ handles' = r.handles
               /\ log' = r.log
    /\ cur' = cur + 1
    /\ UNCHANGED <<devs, objs, pc, caller, arg, list, session, ret, last, out, calls,
                   entry, freed,
                   input, output>>

\* Lines 86-88: hid_free_enumeration and the return.
EnumerateReturn ==
    /\ pc = "enumerate"
    /\ cur > Len(devs)
    /\ pc' = IF caller = "client" THEN "idle" ELSE "search"
    /\ list' = IF caller = "client" THEN devices ELSE list
    /\ ret' = IF caller = "client" THEN devices ELSE ret
    /\ UNCHANGED <<devs, strs, infos, objs, handles, caller, arg, cur, devices,
                   session, last, log, out, calls, faults, entry, freed,
                   input, output>>

\* The client calls libambit_enumerate().
libambit_enumerate ==
    /\ pc = "idle"
    /\ ~Discovered
    /\ list = NULL
    /\ calls' = calls \cup {"libambit_enumerate"}
    /\ last' = [op |-> "libambit_enumerate", arg |-> NULL]
    /\ EnterEnumerate("client")
    /\ UNCHANGED <<devs, strs, infos, objs, handles, arg, session, out, faults, entry,
                   freed,
                   input, output>>

(***************************************************************************)
(* libambit_free_enumeration.                                              *)
(***************************************************************************)
\* Lines 93-98: the heaps and the calls after the walk from record d.
RECURSIVE FreeEnumeration(_, _, _, _)
FreeEnumeration(S, I, d, lg) ==
    IF d = NULL THEN [strs |-> S, infos |-> I, log |-> lg]
    ELSE FreeEnumeration(Free(S, I[d].path), Free(I, d), I[d].next,
                         lg \o <<Ev("free_path", I[d].path), Ev("free_info", d)>>)

\* The client frees the list it holds.
libambit_free_enumeration ==
    /\ pc = "idle"
    /\ "libambit_free_enumeration" \notin calls
    /\ list # NULL
    /\ LET r == FreeEnumeration(strs, infos, list, <<>>)
       IN  /\ strs' = r.strs
           /\ infos' = r.infos
           /\ log' = r.log
    /\ calls' = calls \cup {"libambit_free_enumeration"}
    /\ last' = [op |-> "libambit_free_enumeration", arg |-> list]
    /\ list' = NULL
    /\ ret' = NULL
    /\ UNCHANGED <<devs, objs, handles, caller, arg, cur, devices, session, pc, out,
                   faults, entry, freed,
                   input, output>>

(***************************************************************************)
(* libambit_new.                                                           *)
(***************************************************************************)
NoDevice == [null |-> TRUE, info |-> ZeroInfo]
Device(info) == [null |-> FALSE, info |-> info]

\* What the environment answers to libambit_new.
NewEnvironments == [strdupOk : BOOLEAN, callocOk : BOOLEAN, openOk : BOOLEAN]

\* The test of line 115 without the support flag.
AvailableWhateverSupport(info) == 0 = info.access_status

\* Line 115: the record is available.
Available(info) == 0 = info.access_status /\ info.is_supported

\* The memcpy of line 122 without line 123: the record's own path is kept.
SessionInfoSharedPath(info, path) == info

\* Lines 122-123: the session's copy of the record, with the duplicated path.
SessionInfo(info, path) == [info EXCEPT !.path = path]

\* Lines 135-137 left out.
ReleasePathNever(S, path, object) == S

\* Lines 135-137: the duplicated path is freed when there is no object.
ReleasePath(S, path, object) == IF object = NULL THEN Free(S, path) ELSE S

\* libambit_new(device) under e on the heaps S, O, H: the object returned, the
\* heaps, the calls made, and whether driver->init was reached with no driver.
New(device, e, S, O, H) ==
    LET p == Len(S) + 1
        o == Len(O) + 1
        h == Len(H) + 1
        info == device.info
        none == [object |-> NULL, strs |-> S, objs |-> O, handles |-> H, log |-> <<>>,
                 crashed |-> FALSE]
    IN  IF device.null \/ info.path = NULL THEN none
        ELSE IF ~e.strdupOk THEN [none EXCEPT !.log = <<Ev("strdup_failed", info.path)>>]
        ELSE
        LET S1 == Append(S, [val |-> S[info.path].val, frees |-> 0])
            k == libambit_device_support_find(info.vendor_id, info.product_id,
                                              info.model, info.fw_version)
            dup == <<Ev("strdup", p)>>
            find == <<Ev("device_support_find", info.path)>>
            object == [handle |-> IF e.openOk THEN h ELSE NULL,
                       device_info |-> SessionInfo(info, p),
                       driver |-> KnownDevices[k].driver,
                       driver_param |-> KnownDevices[k].driver_param,
                       locked |-> FALSE, frees |-> 0]
            H1 == IF e.openOk
                  THEN Append(H, [kind |-> "hid", path |-> S1[p].val, closes |-> 0,
                                  nonblocking |-> TRUE])
                  ELSE H
            opened == <<Ev("calloc", o), Ev("hid_open_path", p)>>
                      \o (IF e.openOk THEN <<Ev("hid_set_nonblocking", h)>> ELSE <<>>)
        IN  IF ~Available(info)
            THEN [none EXCEPT !.strs = ReleasePath(S1, p, NULL),
                              !.log = dup \o <<Ev("free_path", p)>>]
            ELSE IF k = NULL
            THEN [none EXCEPT !.strs = ReleasePath(S1, p, NULL),
                              !.log = dup \o find \o <<Ev("free_path", p)>>]
            ELSE IF ~e.callocOk
            THEN [none EXCEPT !.strs = ReleasePath(S1, p, NULL),
                              !.log = dup \o find \o <<Ev("calloc_failed", p),
                                                       Ev("free_path", p)>>]
            ELSE IF object.driver.null
            THEN [object |-> o, strs |-> S1, objs |-> Append(O, object), handles |-> H1,
                  log |-> dup \o find \o opened, crashed |-> TRUE]
            ELSE [object |-> o, strs |-> ReleasePath(S1, p, o),
                  objs |-> Append(O, object), handles |-> H1,
                  log |-> dup \o find \o opened \o <<Ev("init", o)>>,
                  crashed |-> FALSE]

\* The records the client can reach from the list it holds.
RECURSIVE Reachable(_, _)
Reachable(I, d) == IF d = NULL THEN {} ELSE {d} \cup Reachable(I, I[d].next)

\* The records a client may hand to libambit_new: none, one of its list, or
\* a copy of one it has changed.
ClientDevices ==
    {NoDevice}
    \cup {Device(infos[d]) : d \in Reachable(infos, list)}
    \cup {Device([infos[d] EXCEPT !.path = NULL]) : d \in Reachable(infos, list)}
    \cup {Device([infos[d] EXCEPT !.is_supported = TRUE])
            : d \in Reachable(infos, list)}

\* The allocations that fail in libambit_new(device) under e.
NewFailures(device, e) ==
    IF device.null \/ device.info.path = NULL THEN 0
    ELSE IF ~e.strdupOk THEN 1
    ELSE IF ~Available(device.info) THEN 0
    ELSE IF libambit_device_support_find(device.info.vendor_id, device.info.product_id,
                                         device.info.model, device.info.fw_version) = NULL
    THEN 0
    ELSE B2N(~e.callocOk)

NewFailing(e) == B2N(~e.strdupOk) + B2N(~e.callocOk)

libambit_new ==
    /\ pc = "idle"
    /\ "libambit_new" \notin calls
    /\ session = NULL
    /\ \E device \in ClientDevices, e \in NewEnvironments :
        /\ NewFailing(e) = NewFailures(device, e)
        /\ faults + NewFailing(e) <= MaxFaults
        /\ faults' = faults + NewFailing(e)
        /\ LET r == New(device, e, strs, objs, handles)
           IN
            /\ strs' = r.strs
            /\ objs' = r.objs
            /\ handles' = r.handles
            /\ log' = r.log
            /\ pc' = IF r.crashed THEN "crashed" ELSE "idle"
            /\ session' = IF r.crashed THEN NULL ELSE r.object
            /\ ret' = IF r.crashed THEN NULL ELSE r.object
            /\ last' = [op |-> "libambit_new", arg |-> device]
    /\ calls' = calls \cup {"libambit_new"}
    /\ UNCHANGED <<devs, infos, caller, arg, cur, devices, list, out, entry,
                   freed,
                   input, output>>

(***************************************************************************)
(* libambit_new_from_pathname.                                             *)
(***************************************************************************)
\* Lines 155-160: the first record from d on whose path is pathname and for
\* which libambit_new returns an object.
RECURSIVE Search(_, _, _, _, _, _, _)
Search(pathname, d, e, S, O, H, lg) ==
    IF d = NULL
    THEN [object |-> NULL, strs |-> S, objs |-> O, handles |-> H, log |-> lg,
          crashed |-> FALSE]
    ELSE IF pathname = S[infos[d].path].val
    THEN LET r == New(Device(infos[d]), e, S, O, H)
         IN  IF r.object # NULL
             THEN [r EXCEPT !.log = lg \o r.log]
             ELSE Search(pathname, infos[d].next, e, r.strs, r.objs, r.handles,
                         lg \o r.log)
    ELSE Search(pathname, infos[d].next, e, S, O, H, lg)

\* The allocations that fail in the libambit_new call of the search.
SearchFailures(pathname, d, e) ==
    LET m == {x \in Reachable(infos, d) : pathname = strs[infos[x].path].val}
    IN  IF m = {} THEN 0 ELSE NewFailures(Device(infos[CHOOSE x \in m : TRUE]), e)

\* Lines 144-153: the call, up to the enumeration.
libambit_new_from_pathname ==
    /\ pc = "idle"
    /\ ~Discovered
    /\ session = NULL
    /\ \E pathname \in 0..(Len(devs) + 1) :
        /\ arg' = pathname
        /\ last' = [op |-> "libambit_new_from_pathname", arg |-> pathname]
        /\ IF pathname = NULL
           THEN /\ ret' = NULL
                /\ log' = <<>>
                /\ UNCHANGED <<pc, caller, cur, devices, list>>
           ELSE EnterEnumerate("from_pathname")
    /\ calls' = calls \cup {"libambit_new_from_pathname"}
    /\ UNCHANGED <<devs, strs, infos, objs, handles, session, out, faults, entry,
                   freed,
                   input, output>>

\* Lines 154-163: the search, libambit_free_enumeration(info) and the return.
FromPathnameReturn ==
    /\ pc = "search"
    /\ \E e \in NewEnvironments :
        LET r == Search(arg, devices, e, strs, objs, handles, log)
            n == SearchFailures(arg, devices, e)
            f == FreeEnumeration(r.strs, infos, devices, r.log)
        IN  /\ NewFailing(e) = n
            /\ faults + n <= MaxFaults
            /\ faults' = faults + n
            /\ objs' = r.objs
            /\ handles' = r.handles
            /\ IF r.crashed
               THEN /\ pc' = "crashed"
                    /\ strs' = r.strs
                    /\ log' = r.log
                    /\ UNCHANGED <<infos, session, ret>>
               ELSE /\ pc' = "idle"
                    /\ strs' = f.strs
                    /\ infos' = f.infos
                    /\ log' = f.log
                    /\ session' = r.object
                    /\ ret' = r.object
    /\ UNCHANGED <<devs, caller, arg, cur, devices, list, last, out, calls,
                   entry, freed,
                   input, output>>

(***************************************************************************)
(* libambit_close and the lock of the sync display.                        *)
(***************************************************************************)
Has(object, fn) == ~object.driver.null /\ fn \in object.driver.fns

\* Lines 169-185 on the object at address o: the calls made, in order, and
\* the heaps they leave.
\* The calls of libambit_close with the handle closed before the driver calls.
CloseCallsHandleFirst(object, o) ==
    (IF object.handle # NULL THEN <<Ev("hid_close", object.handle)>> ELSE <<>>)
    \o (IF Has(object, "lock_log") THEN <<Ev("lock_log", FALSE)>> ELSE <<>>)
    \o (IF Has(object, "deinit") THEN <<Ev("deinit", o)>> ELSE <<>>)
    \o <<Ev("free_path", object.device_info.path), Ev("free_object", o)>>

CloseCalls(object, o) ==
    (IF Has(object, "lock_log") THEN <<Ev("lock_log", FALSE)>> ELSE <<>>)
    \o (IF Has(object, "deinit") THEN <<Ev("deinit", o)>> ELSE <<>>)
    \o (IF object.handle # NULL THEN <<Ev("hid_close", object.handle)>> ELSE <<>>)
    \o <<Ev("free_path", object.device_info.path), Ev("free_object", o)>>

\* libambit_close with the two free() calls inside `if (object->handle != NULL)`.
CloseFreesOnlyWithHandle(o, S, O, H) ==
    LET object == O[o]
    IN  IF object.handle = NULL
        THEN [strs |-> S, objs |-> O, handles |-> H,
              log |-> SubSeq(CloseCalls(object, o), 1, Len(CloseCalls(object, o)) - 2)]
        ELSE [strs |-> Free(S, object.device_info.path),
              objs |-> Free([O EXCEPT ![o].locked = IF Has(object, "lock_log")
                                                    THEN FALSE ELSE @], o),
              handles |-> [H EXCEPT ![object.handle].closes = @ + 1],
              log |-> CloseCalls(object, o)]

Close(o, S, O, H) ==
    LET object == O[o]
    IN  [strs |-> Free(S, object.device_info.path),
         objs |-> Free([O EXCEPT ![o].locked = IF Has(object, "lock_log")
                                               THEN FALSE ELSE @], o),
         handles |-> IF object.handle # NULL
                     THEN [H EXCEPT ![object.handle].closes = @ + 1] ELSE H,
         log |-> CloseCalls(object, o)]

libambit_close ==
    /\ pc = "idle"
    /\ "libambit_close" \notin calls
    /\ \E object \in {NULL, session} :
        /\ last' = [op |-> "libambit_close", arg |-> object]
        /\ IF object = NULL
           THEN /\ log' = <<>>
                /\ UNCHANGED <<strs, objs, handles, session>>
           ELSE LET r == Close(object, strs, objs, handles)
                IN  /\ strs' = r.strs
                    /\ objs' = r.objs
                    /\ handles' = r.handles
                    /\ log' = r.log
                    /\ session' = NULL
    /\ ret' = NULL
    /\ calls' = calls \cup {"libambit_close"}
    /\ UNCHANGED <<devs, infos, pc, caller, arg, cur, devices, list, out, faults,
                   entry, freed,
                   input, output>>

(***************************************************************************)
(* The lock of the sync display and the six capability calls.              *)
(***************************************************************************)
\* Lines 190-192 and 197-199: driver->lock_log(object, lock) if there is one.
LockLog(object, lock) ==
    IF Has(object, "lock_log")
    THEN [object |-> [object EXCEPT !.locked = lock], log |-> <<Ev("lock_log", lock)>>]
    ELSE [object |-> object, log |-> <<>>]

SyncDisplay(op, lock) ==
    /\ pc = "idle"
    /\ Live(objs, session)
    /\ LET r == LockLog(objs[session], lock)
       IN  /\ objs' = [objs EXCEPT ![session] = r.object]
           /\ log' = r.log
    /\ last' = [op |-> op, arg |-> session]
    /\ ret' = NULL
    /\ UNCHANGED <<devs, strs, infos, handles, caller, arg, cur, devices, list, session,
                   pc, out, calls, faults, entry, freed,
                   input, output>>

libambit_sync_display_show == SyncDisplay("libambit_sync_display_show", TRUE)

libambit_sync_display_clear == SyncDisplay("libambit_sync_display_clear", FALSE)

\* What a driver function may return and may leave in its output parameter.
DriverReturns == {-1, 0, 1}
OutValues == {0, 1}

\* The body of a call whose ret starts as 0.
DispatchZero(object, fn, rv, w, o) ==
    IF Has(object, fn)
    THEN [ret |-> rv, out |-> w, log |-> <<Ev(fn, rv)>>]
    ELSE [ret |-> 0, out |-> o, log |-> <<>>]

\* The body the six calls share: ret starts as -1; if the driver has fn it is
\* called, returns rv and leaves w in the output parameter.
Dispatch(object, fn, rv, w, o) ==
    IF Has(object, fn)
    THEN [ret |-> rv, out |-> w, log |-> <<Ev(fn, rv)>>]
    ELSE [ret |-> -1, out |-> o, log |-> <<>>]

Call(op, fn) ==
    /\ pc = "idle"
    /\ Live(objs, session)
    /\ \E rv \in DriverReturns, w \in OutValues :
        LET r == Dispatch(objs[session], fn, rv, w, out)
        IN  /\ ret' = r.ret
            /\ out' = r.out
            /\ log' = r.log
    /\ last' = [op |-> op, arg |-> session]
    /\ UNCHANGED <<devs, strs, infos, objs, handles, caller, arg, cur, devices, list,
                   session, pc, calls, faults, entry, freed,
                   input, output>>

libambit_date_time_set == Call("libambit_date_time_set", "date_time_set")

libambit_device_status_get == Call("libambit_device_status_get", "status_get")

libambit_personal_settings_get ==
    Call("libambit_personal_settings_get", "personal_settings_get")

libambit_gps_orbit_header_read ==
    Call("libambit_gps_orbit_header_read", "gps_orbit_header_read")

libambit_gps_orbit_write == Call("libambit_gps_orbit_write", "gps_orbit_write")

libambit_log_read == Call("libambit_log_read", "log_read")

(***************************************************************************)
(* libambit_log_entry_free.                                                *)
(***************************************************************************)
SampleTypes == {"periodic", "gps_base", "unknown", "position"}

\* The blocks of a log entry: the entry, its sample array, the payload of
\* sample i, and Wild, what a union member of another variant reads as.
Block(kind, idx) == [kind |-> kind, idx |-> idx]
NoBlock == Block("null", 0)
Wild == Block("wild", 0)
EntryBlock == Block("entry", 0)
SamplesBlock == Block("samples", 0)

\* The union u of a sample: the member of its own variant is own, the
\* members of the other variants read as other.
Union(type, own, other) ==
    [values |-> IF type = "periodic" THEN own ELSE other,
     satellites |-> IF type = "gps_base" THEN own ELSE other,
     data |-> IF type = "unknown" THEN own ELSE other]

Sample(i, k) ==
    [type |-> k.type,
     u |-> Union(k.type, IF k.owns THEN Block("payload", i) ELSE NoBlock,
                 IF k.wild THEN Wild ELSE NoBlock)]

SampleKinds == [type : SampleTypes, owns : BOOLEAN, wild : BOOLEAN]

NoEntry == [null |-> TRUE, samples_null |-> TRUE, samples |-> <<>>]

LogEntries ==
    {NoEntry, [null |-> FALSE, samples_null |-> TRUE, samples |-> <<>>]}
    \cup UNION {{[null |-> FALSE, samples_null |-> FALSE,
                  samples |-> [i \in 1..n |-> Sample(i, f[i])]]
                   : f \in [1..n -> SampleKinds]} : n \in 0..MaxSamples}

\* The loop body without the tests of the tag.
FreeSampleAnyMember(sample) ==
    (IF sample.u.values # NoBlock THEN <<sample.u.values>> ELSE <<>>)
    \o (IF sample.u.satellites # NoBlock THEN <<sample.u.satellites>> ELSE <<>>)
    \o (IF sample.u.data # NoBlock THEN <<sample.u.data>> ELSE <<>>)

\* Lines 293-307: what one turn of the loop passes to free().
FreeSample(sample) ==
    (IF sample.type = "periodic" /\ sample.u.values # NoBlock
     THEN <<sample.u.values>> ELSE <<>>)
    \o (IF sample.type = "gps_base" /\ sample.u.satellites # NoBlock
        THEN <<sample.u.satellites>> ELSE <<>>)
    \o (IF sample.type = "unknown" /\ sample.u.data # NoBlock
        THEN <<sample.u.data>> ELSE <<>>)

RECURSIVE FreeSamples(_, _)
FreeSamples(samples, i) ==
    IF i > Len(samples) THEN <<>>
    ELSE FreeSample(samples[i]) \o FreeSamples(samples, i + 1)

\* Lines 290-312: the blocks passed to free(), in order.
LogEntryFree(log_entry) ==
    IF log_entry.null THEN <<>>
    ELSE (IF log_entry.samples_null THEN <<>>
          ELSE FreeSamples(log_entry.samples, 1) \o <<SamplesBlock>>)
         \o <<EntryBlock>>

libambit_log_entry_free ==
    /\ pc = "idle"
    /\ "libambit_log_entry_free" \notin calls
    /\ freed' = LogEntryFree(entry)
    /\ calls' = calls \cup {"libambit_log_entry_free"}
    /\ last' = [op |-> "libambit_log_entry_free", arg |-> NULL]
    /\ UNCHANGED <<devs, strs, infos, objs, handles, caller, arg, cur, devices, list,
                   session, pc, ret, log, out, faults, entry,
                   input, output>>

(***************************************************************************)
(* The specifications.                                                     *)
(***************************************************************************)
\* Nothing attached, nothing allocated, nothing called.
Blank ==
    /\ pc = "idle"
    /\ caller = "client"
    /\ arg = NULL
    /\ cur = 0
    /\ devices = NULL
    /\ list = NULL
    /\ ret = NULL
    /\ last = [op |-> "none", arg |-> NULL]
    /\ log = <<>>
    /\ out = 0
    /\ calls = {}
    /\ faults = 0
    /\ freed = <<>>

\* No static function is called on its own.
NoCall == input = NULL /\ output = NULL

Empty ==
    /\ strs = <<>>
    /\ infos = <<>>
    /\ objs = <<>>
    /\ handles = <<>>
    /\ session = NULL

\* The lifecycle of a session: a client that discovers the devices once,
\* opens at most one session and frees what it holds.
Init ==
    /\ Blank
    /\ NoCall
    /\ Empty
    /\ devs \in DescriptorLists(LifecycleKinds)
    /\ entry = NoEntry

Next ==
    \/ libambit_enumerate
    \/ EnumerateStep
    \/ EnumerateReturn
    \/ libambit_free_enumeration
    \/ libambit_new
    \/ libambit_new_from_pathname
    \/ FromPathnameReturn
    \/ libambit_close

Spec == Init /\ [][Next]_vars

\* The enumeration alone, on every kind of interface.
InitEnum ==
    /\ Blank
    /\ NoCall
    /\ Empty
    /\ devs \in DescriptorLists(DeviceKinds)
    /\ entry = NoEntry

NextEnum ==
    \/ libambit_enumerate
    \/ EnumerateStep
    \/ EnumerateReturn
    \/ libambit_free_enumeration

SpecEnum == InitEnum /\ [][NextEnum]_vars

\* An open session bound to any driver, with or without a transport handle.
SessionDrivers ==
    {NoDriver}
    \cup {[null |-> FALSE, fns |-> {"init"} \cup a \cup b]
            : a \in SUBSET {"lock_log", "deinit"},
              b \in {{}, Capabilities} \cup {{c} : c \in Capabilities}
                    \cup {Capabilities \ {c} : c \in Capabilities}}

InitSession ==
    /\ Blank
    /\ NoCall
    /\ devs = <<>>
    /\ entry = NoEntry
    /\ strs = <<[val |-> 1, frees |-> 0]>>
    /\ infos = <<>>
    /\ session = 1
    /\ \E driver \in SessionDrivers, open \in BOOLEAN :
        /\ handles = IF open
                     THEN <<[kind |-> "hid", path |-> 1, closes |-> 0,
                             nonblocking |-> TRUE]>>
                     ELSE <<>>
        /\ objs = <<[handle |-> IF open THEN 1 ELSE NULL,
                     device_info |-> [ZeroInfo EXCEPT !.path = 1,
                                                      !.is_supported = TRUE],
                     driver |-> driver, driver_param |-> 0, locked |-> FALSE,
                     frees |-> 0]>>

NextSession ==
    \/ libambit_sync_display_show
    \/ libambit_sync_display_clear
    \/ libambit_date_time_set
    \/ libambit_device_status_get
    \/ libambit_personal_settings_get
    \/ libambit_gps_orbit_header_read
    \/ libambit_gps_orbit_write
    \/ libambit_log_read
    \/ libambit_close

SpecSession == InitSession /\ [][NextSession]_vars

\* The release of a log entry.
InitLog ==
    /\ Blank
    /\ NoCall
    /\ Empty
    /\ devs = <<>>
    /\ entry \in LogEntries

NextLog == libambit_log_entry_free

SpecLog == InitLog /\ [][NextLog]_vars

(***************************************************************************)
(* The static functions, each called on its own on the arguments that      *)
(* ambit_device_info_new can hand it.                                      *)
(***************************************************************************)
\* The bytes of a reply: NUL, an ASCII letter and a byte above 127.
Bytes == {0, 65, 200}
Fields(n) == [1..n -> Bytes]
Versions == {<<0, 0, 0, 0>>, <<1, 2, 3, 4>>, <<255, 255, 255, 255>>}

\* The payloads of a device-info reply.
ReplyPayloads ==
    {m \o sr \o fw \o hw : m \in Fields(LIBAMBIT_MODEL_NAME_LENGTH),
                           sr \in Fields(LIBAMBIT_SERIAL_LENGTH),
                           fw \in Versions, hw \in Versions}

AllOk == [strdupOk |-> TRUE, callocOk |-> TRUE, nameOk |-> TRUE, uniqOk |-> TRUE]

\* The records ambit_device_info_new hands to device_info_get (line 472).
ProbedInfos == {InfoFromDescriptor(Descriptor(1, d), 1, AllOk) : d \in DeviceKinds}

\* Lines 315-345: device_info_get(&obj, info); ok: the protocol command
\* returned 0 and left reply_data.
DeviceInfoGet ==
    /\ pc = "idle"
    /\ input.fn = "device_info_get"
    /\ "device_info_get" \notin calls
    /\ output' = IF input.ok
                 THEN [ret |-> 0, info |-> device_info_get(input.info, input.reply_data)]
                 ELSE [ret |-> -1, info |-> input.info]
    /\ calls' = calls \cup {"device_info_get"}
    /\ UNCHANGED <<devs, strs, infos, objs, handles, pc, caller, arg, cur, devices,
                   list, session, ret, last, log, out, faults, entry, freed, input>>

\* Wide characters of 1, 2, 3 and 4 UTF-8 bytes, and a surrogate, which has
\* no encoding.
WideChars == {65, 233, 8364, 128512, 55296}

WideStrings == UNION {[1..k -> WideChars] : k \in 0..MaxWcs}

\* Lines 363-407: wcs2nutf8(dest, src, n) on a zeroed field of n + 1 bytes;
\* ok: iconv_open and malloc succeed.
Wcs2nutf8 ==
    /\ pc = "idle"
    /\ input.fn = "wcs2nutf8"
    /\ "wcs2nutf8" \notin calls
    /\ output' = wcs2nutf8(ZeroBuf(input.n + 1), input.src, input.n, input.ok)
    /\ calls' = calls \cup {"wcs2nutf8"}
    /\ UNCHANGED <<devs, strs, infos, objs, handles, pc, caller, arg, cur, devices,
                   list, session, ret, last, log, out, faults, entry, freed, input>>

InitWcs ==
    /\ Blank
    /\ Empty
    /\ devs = <<>>
    /\ entry = NoEntry
    /\ output = NULL
    /\ input \in [fn : {"wcs2nutf8"}, src : WideStrings, n : 0..MaxBound,
                  ok : BOOLEAN]

NextWcs == Wcs2nutf8

SpecWcs == InitWcs /\ [][NextWcs]_vars

\* The bytes of a version: the ends of the range and where a digit is added.
VersionBytes == {0, 1, 2, 3, 4, 9, 10, 99, 100, 255}

\* Lines 347-355: version_string(string, version) with neither of them NULL.
VersionString ==
    /\ pc = "idle"
    /\ input.fn = "version_string"
    /\ "version_string" \notin calls
    /\ output' = version_string(input.version)
    /\ calls' = calls \cup {"version_string"}
    /\ UNCHANGED <<devs, strs, infos, objs, handles, pc, caller, arg, cur, devices,
                   list, session, ret, last, log, out, faults, entry, freed, input>>

InitVersion ==
    /\ Blank
    /\ Empty
    /\ devs = <<>>
    /\ entry = NoEntry
    /\ output = <<>>
    /\ input \in [fn : {"version_string"}, version : [1..4 -> VersionBytes]]

NextVersion == VersionString

SpecVersion == InitVersion /\ [][NextVersion]_vars

\* Bytes of a field of the reply, on both sides of 127.
FieldBytes == {0, 65, 127, 128, 200, 255}

\* Lines 540-552: utf8strncpy(dst, src, n) as device_info_get calls it, on a
\* field of the reply; signed: char is a signed type in this build.
Utf8strncpy ==
    /\ pc = "idle"
    /\ input.fn = "utf8strncpy"
    /\ "utf8strncpy" \notin calls
    /\ output' = [dst |-> utf8strncpy(input.dst, input.src, input.n),
                  warnings |-> utf8strncpyWarnings(input.src, input.n, input.signed)]
    /\ calls' = calls \cup {"utf8strncpy"}
    /\ UNCHANGED <<devs, strs, infos, objs, handles, pc, caller, arg, cur, devices,
                   list, session, ret, last, log, out, faults, entry, freed, input>>

InitUtf8 ==
    /\ Blank
    /\ Empty
    /\ devs = <<>>
    /\ entry = NoEntry
    /\ output = NULL
    /\ \E n \in {LIBAMBIT_MODEL_NAME_LENGTH, LIBAMBIT_SERIAL_LENGTH} :
        input \in [fn : {"utf8strncpy"}, n : {n}, dst : {ZeroBuf(n + 1)},
                   src : [1..n -> FieldBytes], signed : BOOLEAN]

NextUtf8 == Utf8strncpy

SpecUtf8 == InitUtf8 /\ [][NextUtf8]_vars

InitInfo ==
    /\ Blank
    /\ Empty
    /\ devs = <<>>
    /\ entry = NoEntry
    /\ output = NULL
    /\ input \in [fn : {"device_info_get"}, ok : BOOLEAN, info : ProbedInfos,
                  reply_data : ReplyPayloads]

NextInfo == DeviceInfoGet

SpecInfo == InitInfo /\ [][NextInfo]_vars

(***************************************************************************)
(* The enumeration: what libambit_enumerate returns.                       *)
(***************************************************************************)
\* libambit_enumerate has returned to the client and nothing was called since.
EnumReturned == pc = "idle" /\ last.op = "libambit_enumerate"

KnownDescriptors ==
    {i \in 1..Len(devs) :
        libambit_device_support_known(devs[i].vendor_id, devs[i].product_id)}

\* The records of the list that starts at d, in list order.
RECURSIVE ListOf(_, _)
ListOf(I, d) == IF d = NULL THEN <<>> ELSE <<d>> \o ListOf(I, I[d].next)

\* The path of record a names the descriptor it was made from.
PathOf(a) == strs[infos[a].path].val

Positions(L, i) == {k \in 1..Len(L) : PathOf(L[k]) = i}

\* The descriptors for which ambit_device_info_new returned a record.
Yielded == {i \in 1..Len(devs) : \E k \in 1..Len(log) : log[k] = Ev("record", i)}

\* C1: when no allocation fails, the list libambit_enumerate returns holds
\* exactly one record for each descriptor whose ids the registry knows: as
\* many records as such descriptors, and each one's path exactly once.
C1_OneRecordPerKnownDescriptor ==
    (EnumReturned /\ faults = 0 /\ \A i \in 1..Len(devs) : devs[i].path # NULL)
        => LET L == ListOf(infos, ret)
           IN  /\ Len(L) = Cardinality(KnownDescriptors)
               /\ \A i \in KnownDescriptors : Cardinality(Positions(L, i)) = 1

\* C2: a descriptor whose ids the registry does not know gets no record, and
\* nothing but the registry's filter is called for it: no path is duplicated,
\* no transport or file is opened.
C2_UnknownRejectedBeforeIO ==
    last.op = "libambit_enumerate"
        => \A i \in (1..Len(devs)) \ KnownDescriptors :
            /\ \A k \in 1..Len(log) :
                log[k].arg = i => log[k].op = "device_support_known"
            /\ \A a \in 1..Len(strs) : strs[a].val # i
            /\ \A a \in 1..Len(infos) : PathOf(a) # i
            /\ \A h \in 1..Len(handles) : handles[h].path # i

\* An enumeration that filtered one descriptor out and made a record of another.
C2_Witness ==
    /\ EnumReturned
    /\ ret # NULL
    /\ \E i \in (1..Len(devs)) \ KnownDescriptors :
        \E k \in 1..Len(log) : log[k] = Ev("device_support_known", i)

\* C3: the list is accumulated by prepending: of two descriptors that both
\* yield a record, the record of the one processed later comes first, and the
\* head of the list is the record of the last descriptor that yielded one.
C3_PrependOrder ==
    EnumReturned
        => LET L == ListOf(infos, ret)
           IN  /\ \A a, b \in Yielded :
                    a < b => \E ka \in Positions(L, a), kb \in Positions(L, b) : kb < ka
               /\ \A b \in Yielded :
                    (\A a \in Yielded : a <= b) => (ret # NULL /\ PathOf(ret) = b)

(***************************************************************************)
(* libambit_close.                                                         *)
(***************************************************************************)
\* The place of a call in the teardown.
Rank(op) ==
    CASE op = "lock_log" -> 1
      [] op = "deinit" -> 2
      [] op = "hid_close" -> 3
      [] op = "free_path" -> 4
      [] op = "free_object" -> 5
      [] OTHER -> 0

Closed == last.op = "libambit_close" /\ last.arg # NULL

\* C4: libambit_close on a session releases the lock, then calls deinit, then
\* closes the handle, then frees the path and the session: the calls it makes
\* are in that order, so none of the driver follows the close or a free.
C4_CloseOrder ==
    Closed
        => /\ \A j, k \in 1..Len(log) : j < k => Rank(log[j].op) < Rank(log[k].op)
           /\ \A k \in 1..Len(log) : Rank(log[k].op) > 0
           /\ Len(log) >= 2
           /\ log[Len(log) - 1].op = "free_path"
           /\ log[Len(log)].op = "free_object"

\* A close that made all five calls.
C4_Witness == Closed /\ Len(log) = 5

CloseStep == "libambit_close" \notin calls /\ "libambit_close" \in calls'

Count(lg, op) == Cardinality({k \in 1..Len(lg) : lg[k].op = op})

\* C5: libambit_close(NULL) calls nothing and frees nothing; on a session it
\* frees the path and the session once each, whatever the driver has and
\* whether the lock is held, and closes the handle only if there is one.
C5_CloseFreesOnce ==
    [][CloseStep =>
        IF last'.arg = NULL
        THEN log' = <<>> /\ UNCHANGED <<strs, objs, handles>>
        ELSE LET o == last'.arg
                 object == objs[o]
                 path == object.device_info.path
             IN  /\ object.frees = 0 /\ strs[path].frees = 0
                 /\ objs'[o].frees = 1 /\ strs'[path].frees = 1
                 /\ Count(log', "free_path") = 1 /\ Count(log', "free_object") = 1
                 /\ \A a \in 1..Len(strs) : a # path => strs'[a] = strs[a]
                 /\ IF object.handle = NULL
                    THEN Count(log', "hid_close") = 0 /\ handles' = handles
                    ELSE /\ Count(log', "hid_close") = 1
                         /\ handles'[object.handle].closes = 1]_vars

\* A session closed whose driver has lock_log but no deinit, and no handle.
C5_Witness ==
    /\ Closed
    /\ objs[1].frees = 1
    /\ objs[1].handle = NULL
    /\ Has(objs[1], "lock_log")
    /\ ~Has(objs[1], "deinit")
    /\ strs[1].frees = 1

(***************************************************************************)
(* libambit_new.                                                           *)
(***************************************************************************)
NewReturned == pc = "idle" /\ last.op = "libambit_new"

\* The calls that look up, allocate, open or initialise.
OpeningCalls == {"device_support_find", "calloc", "calloc_failed", "hid_open_path",
                 "hid_set_nonblocking", "init"}

\* C6: for a record whose access_status is not 0 or which is not supported,
\* libambit_new returns NULL without a registry lookup, a session allocation,
\* a transport open or a call of the driver's init.
C6_UnavailableFailsFast ==
    (/\ last.op = "libambit_new"
     /\ ~last.arg.null
     /\ last.arg.info.access_status # 0 \/ ~last.arg.info.is_supported)
        => /\ pc = "idle"
           /\ ret = NULL
           /\ session = NULL
           /\ \A k \in 1..Len(log) : log[k].op \notin OpeningCalls

\* libambit_new on a record of the list that the probe could not access.
C6_Witness ==
    /\ NewReturned
    /\ ~last.arg.null
    /\ last.arg.info.access_status # 0
    /\ last.arg.info.path # NULL
    /\ \E k \in 1..Len(log) : log[k].op = "strdup"

Duplicated == {log[k].arg : k \in {j \in 1..Len(log) : log[j].op = "strdup"}}

\* C7: when libambit_new returns NULL every path it duplicated has been freed
\* once and no handle is open; when it returns a session the duplicated path
\* is the session's and has not been freed.
C7_PathReleasedOrOwned ==
    NewReturned
        => IF ret = NULL
           THEN /\ \A p \in Duplicated : strs[p].frees = 1
                /\ \A h \in 1..Len(handles) : handles[h].closes > 0
           ELSE /\ Duplicated = {objs[ret].device_info.path}
                /\ strs[objs[ret].device_info.path].frees = 0
                /\ objs[ret].frees = 0

\* libambit_new fails at the registry lookup, after duplicating the path.
C7_Witness ==
    /\ NewReturned
    /\ ret = NULL
    /\ Duplicated # {}
    /\ \E k \in 1..Len(log) : log[k].op = "device_support_find"
    /\ \A k \in 1..Len(log) : log[k].op # "calloc_failed"

\* C8: a session has its own copy of the path: every path string is freed
\* with the record or session that owns it and never twice, so the path of a
\* live session is never a freed string, whichever of the list and the session
\* is released first.
C8_SeparatePath ==
    /\ \A a \in 1..Len(strs) : strs[a].frees <= 1
    /\ \A o \in 1..Len(objs) : strs[objs[o].device_info.path].frees = objs[o].frees
    /\ \A a \in 1..Len(infos) : strs[infos[a].path].frees = infos[a].frees
    /\ \A o \in 1..Len(objs), a \in 1..Len(infos) :
        objs[o].device_info.path # infos[a].path

\* A session opened from a list, and both of them released.
C8_Witness ==
    /\ pc = "idle"
    /\ {"libambit_enumerate", "libambit_free_enumeration", "libambit_close"} \subseteq calls
    /\ Len(objs) = 1
    /\ objs[1].frees = 1

(***************************************************************************)
(* The capability calls.                                                   *)
(***************************************************************************)
CapabilityCalls ==
    {<<"libambit_date_time_set", "date_time_set">>,
     <<"libambit_device_status_get", "status_get">>,
     <<"libambit_personal_settings_get", "personal_settings_get">>,
     <<"libambit_gps_orbit_header_read", "gps_orbit_header_read">>,
     <<"libambit_gps_orbit_write", "gps_orbit_write">>,
     <<"libambit_log_read", "log_read">>}

\* C9: each of the six calls returns -1, calls nothing and leaves the output
\* parameter alone when the driver is NULL or lacks the function; otherwise
\* it calls the function once and returns what the function returned.
C9_Dispatch ==
    [][\A c \in CapabilityCalls :
        last'.op = c[1] =>
            /\ last'.arg = session
            /\ IF Has(objs[session], c[2])
               THEN Len(log') = 1 /\ log'[1].op = c[2] /\ ret' = log'[1].arg
               ELSE ret' = -1 /\ log' = <<>> /\ out' = out]_vars

\* A call of a function the driver lacks, after a driver call wrote the output.
C9_Witness ==
    /\ last.op = "libambit_gps_orbit_header_read"
    /\ ~objs[session].driver.null
    /\ ~Has(objs[session], "gps_orbit_header_read")
    /\ ret = -1
    /\ out = 1
    /\ log = <<>>

(***************************************************************************)
(* libambit_log_entry_free.                                                *)
(***************************************************************************)
\* The payload a sample owns: the union member of its variant.
OwnPayload(sample) ==
    CASE sample.type = "periodic" -> sample.u.values
      [] sample.type = "gps_base" -> sample.u.satellites
      [] sample.type = "unknown" -> sample.u.data
      [] OTHER -> NoBlock

\* The blocks a log entry owns.
Owned(log_entry) ==
    IF log_entry.null THEN {}
    ELSE ({OwnPayload(log_entry.samples[i]) : i \in 1..Len(log_entry.samples)}
            \ {NoBlock})
         \cup (IF log_entry.samples_null THEN {} ELSE {SamplesBlock})
         \cup {EntryBlock}

\* C10: libambit_log_entry_free(NULL) frees nothing; on an entry it frees each
\* payload a sample owns once and no member of another variant, then the
\* sample array, then the entry: everything the entry owns, nothing twice.
C10_LogEntryFree ==
    "libambit_log_entry_free" \in calls
        => /\ {freed[k] : k \in 1..Len(freed)} = Owned(entry)
           /\ Len(freed) = Cardinality(Owned(entry))
           /\ ~entry.null => freed[Len(freed)] = EntryBlock
           /\ (~entry.null /\ ~entry.samples_null)
                => freed[Len(freed) - 1] = SamplesBlock

\* An entry released whose samples own payloads beside members of other variants.
C10_Witness ==
    /\ "libambit_log_entry_free" \in calls
    /\ Len(freed) >= 4
    /\ \E i \in 1..Len(entry.samples) :
        entry.samples[i].type = "gps_base" /\ entry.samples[i].u.values = Wild

(***************************************************************************)
(* The records of the enumeration.                                         *)
(***************************************************************************)
\* The records libambit_enumerate returned.
Returned == IF EnumReturned THEN {ListOf(infos, ret)[k] : k \in 1..Len(ListOf(infos, ret))}
            ELSE {}

\* What wcs2nutf8 leaves in a zeroed field of width n for the bus string w.
Transcoded(w, n) ==
    IF w.null THEN ZeroBuf(n + 1) ELSE wcs2nutf8(ZeroBuf(n + 1), w.s, n, TRUE).dest

C12_FailureIsLocal ==
    [][pc = "enumerate" =>
        /\ Reachable(infos, devices) \subseteq Reachable(infos', devices')
        /\ cur <= Len(devs) => (cur' = cur + 1 /\ pc' = "enumerate")
        /\ (cur > Len(devs) /\ caller = "client")
            => (ret' = devices /\ infos' = infos /\ pc' = "idle")]_vars

\* A list returned with the record of the first descriptor after the path or
\* the record of the second one could not be allocated.
C12_Witness ==
    /\ EnumReturned
    /\ ret # NULL
    /\ PathOf(ret) = 1
    /\ \E j, k \in 1..Len(log) :
        /\ j < k
        /\ log[j] = Ev("record", 1)
        /\ log[k].op \in {"strdup_failed", "calloc_failed"}
        /\ log[k].arg = 2

(***************************************************************************)
(* device_info_get.                                                        *)
(***************************************************************************)
\* The bytes of s before its first NUL.
RECURSIVE UpToNul(_)
UpToNul(s) == IF s = <<>> \/ s[1] = 0 THEN <<>> ELSE <<s[1]>> \o UpToNul(Tail(s))

\* The string in a char array: its bytes before the first NUL, which it has.
RECURSIVE StringIn(_)
StringIn(buf) == IF buf[1] = 0 THEN <<>> ELSE <<buf[1]>> \o StringIn(Tail(buf))

PayloadField(first, n) == SubSeq(input.reply_data, first, first + n - 1)

\* C13: after device_info_get accepts a reply, model is the first
\* LIBAMBIT_MODEL_NAME_LENGTH bytes of the payload up to the first NUL, NUL
\* terminated, serial the next LIBAMBIT_SERIAL_LENGTH bytes likewise, the
\* firmware version the next 4 bytes and the hardware version the 4 after;
\* when the command fails it returns -1 and the record is as it was.
C13_ReplyLayout ==
    "device_info_get" \in calls
        => IF input.ok
           THEN LET M == LIBAMBIT_MODEL_NAME_LENGTH
                    S == LIBAMBIT_SERIAL_LENGTH
                    info == output.info
                IN  /\ output.ret = 0
                    /\ \E k \in 1..(M + 1) : info.model[k] = 0
                    /\ \E k \in 1..(S + 1) : info.serial[k] = 0
                    /\ StringIn(info.model) = UpToNul(PayloadField(1, M))
                    /\ StringIn(info.serial) = UpToNul(PayloadField(M + 1, S))
                    /\ info.fw_version = PayloadField(M + S + 1, 4)
                    /\ info.hw_version = PayloadField(M + S + 5, 4)
                    /\ [info EXCEPT !.model = input.info.model,
                                    !.serial = input.info.serial,
                                    !.fw_version = input.info.fw_version,
                                    !.hw_version = input.info.hw_version] = input.info
           ELSE output.ret = -1 /\ output.info = input.info

\* A reply whose model field has no NUL and whose serial differs from the
\* one the bus descriptor gave.
C13_Witness ==
    /\ "device_info_get" \in calls
    /\ input.ok
    /\ \A k \in 1..LIBAMBIT_MODEL_NAME_LENGTH : input.reply_data[k] # 0
    /\ input.info.serial[1] # 0
    /\ output.info.serial # input.info.serial
    /\ PayloadField(1, LIBAMBIT_MODEL_NAME_LENGTH)
        # PayloadField(LIBAMBIT_MODEL_NAME_LENGTH + 1, LIBAMBIT_SERIAL_LENGTH)

(***************************************************************************)
(* wcs2nutf8.                                                              *)
(***************************************************************************)
\* Number of UTF-8 bytes of a wide character; 0: it has none.
EncLen(c) ==
    IF (c >= 55296 /\ c <= 57343) \/ c > 1114111 THEN 0
    ELSE IF c < 128 THEN 1 ELSE IF c < 2048 THEN 2 ELSE IF c < 65536 THEN 3 ELSE 4

RECURSIVE Enc(_)
Enc(w) == IF w = <<>> THEN <<>> ELSE Utf8(w[1]) \o Enc(Tail(w))

Prefix(w, k) == SubSeq(w, 1, k)

\* The prefixes of w of whole characters that have an encoding of at most n bytes.
Fitting(w, n) ==
    {k \in 0..Len(w) : /\ \A i \in 1..k : EncLen(w[i]) > 0
                       /\ Len(Enc(Prefix(w, k))) <= n}

LongestFitting(w, n) == CHOOSE k \in Fitting(w, n) : \A j \in Fitting(w, n) : j <= k

Transcoding == "wcs2nutf8" \in calls /\ input.ok

\* What holds of every result: a terminated string of at most n bytes that is
\* the encoding of a prefix, found in at most length + 1 conversions.
WellFormed ==
    /\ \E k \in 1..(input.n + 1) : output.dest[k] = 0
    /\ StringIn(output.dest) = output.rv
    /\ Len(output.rv) <= input.n
    /\ \E k \in 0..Len(input.src) : output.rv = Enc(Prefix(input.src, k))
    /\ output.tries <= Len(input.src) + 1

\* C14 as stated: for every wide string and bound n the result is the
\* encoding of the longest prefix of whole characters that fits in n bytes,
\* terminated, at most n bytes, found in at most length + 1 conversions.
C14_LongestPrefix ==
    Transcoding
        => /\ WellFormed
           /\ output.rv = Enc(Prefix(input.src, LongestFitting(input.src, input.n)))

\* C14 amended: every result is terminated, at most n bytes, the encoding of
\* a prefix and found in at most length + 1 conversions; it is the encoding
\* of the longest prefix that fits when every character of the string has an
\* encoding.
C14_LongestPrefixOfValid ==
    Transcoding
        => /\ WellFormed
           /\ (\A i \in 1..Len(input.src) : EncLen(input.src[i]) > 0)
                => output.rv = Enc(Prefix(input.src, LongestFitting(input.src, input.n)))

\* A string cut before a character of three bytes of which only two fit.
C14_Witness ==
    /\ Transcoding
    /\ input.src = <<65, 8364>>
    /\ input.n = 3
    /\ output.rv = <<65>>
    /\ output.tries = 2

\* C15: when the wide string holds a character that cannot be decoded, the
\* field wcs2nutf8 fills is the empty string, and the string it returns is
\* empty and not NULL.
C15_UndecodableIsEmpty ==
    (Transcoding /\ \E i \in 1..Len(input.src) : EncLen(input.src[i]) = 0)
        => /\ StringIn(output.dest) = <<>>
           /\ output.rv = <<>>
           /\ ~output.isNull

(***************************************************************************)
(* version_string.                                                         *)
(***************************************************************************)
IsDigit(c) == c >= 48 /\ c <= 57

\* The number a string of digits reads as.
RECURSIVE Value(_)
Value(t) == IF t = <<>> THEN 0 ELSE 10 * Value(SubSeq(t, 1, Len(t) - 1)) + (t[Len(t)] - 48)

\* t is how n is written in decimal: digits, no leading zero, reading as n.
Writes(t, n) ==
    /\ t # <<>>
    /\ \A k \in 1..Len(t) : IsDigit(t[k])
    /\ Len(t) > 1 => t[1] # 48
    /\ Value(t) = n

\* C16: version_string renders "<major>.<minor>.<patch>" in decimal, with
\* major byte 0, minor byte 1 and patch byte 2 + 256 * byte 3, in no more than
\* 13 characters; the bytes 1, 2, 3, 4 render as "1.2.1027".
C16_VersionRendering ==
    "version_string" \in calls
        => LET v == input.version
           IN  /\ Len(output) <= 13
               /\ \E i, j \in 1..Len(output) :
                    /\ i < j
                    /\ output[i] = 46 /\ output[j] = 46
                    /\ Writes(SubSeq(output, 1, i - 1), v[1])
                    /\ Writes(SubSeq(output, i + 1, j - 1), v[2])
                    /\ Writes(SubSeq(output, j + 1, Len(output)), v[3] + 256 * v[4])
               /\ v = <<1, 2, 3, 4>> => output = <<49, 46, 50, 46, 49, 48, 50, 55>>

\* The longest rendering, "255.255.65535".
C16_Witness ==
    /\ "version_string" \in calls
    /\ input.version = <<255, 255, 255, 255>>
    /\ Len(output) = 13
    /\ output[Len(output)] = 53

(***************************************************************************)
(* The support flag.                                                       *)
(***************************************************************************)
\* What the device behind record a answers.
WorldOf(a) == devs[PathOf(a)].world

\* The registry entry the second lookup resolves for record a, NULL if none.
Resolved(a) ==
    libambit_device_support_find(infos[a].vendor_id, infos[a].product_id,
                                 infos[a].model, infos[a].fw_version)

Opens(k) ==
    \/ log[k].op = "hid_open_path" /\ devs[log[k].arg].world.openOk
    \/ log[k].op = "open" /\ devs[log[k].arg].world.errno = 0

Closes(j, k) ==
    /\ log[j].arg = log[k].arg
    /\ log[j].op = IF log[k].op = "open" THEN "close" ELSE "hid_close"

\* C18: every handle and file descriptor libambit_enumerate opens to probe a
\* descriptor is closed, once, before a call is made for the next descriptor,
\* whatever the probe finds; none is open when it returns.
C18_ProbeHandlesClosed ==
    /\ \A h \in 1..Len(handles) : handles[h].closes = 1
    /\ last.op = "libambit_enumerate"
        => \A k \in 1..Len(log) :
            Opens(k) => \E j \in (k + 1)..Len(log) :
                            /\ Closes(j, k)
                            /\ \A m \in k..j : log[m].arg = log[k].arg
                            /\ \A m \in (k + 1)..Len(log) : Closes(m, k) => m = j

\* An enumeration that probed a device that did not answer and checked the
\* access to one it could not open.
C18_Witness ==
    /\ EnumReturned
    /\ \E h \in 1..Len(handles) :
        handles[h].kind = "hid" /\ devs[handles[h].path].world = Mute
    /\ \E h \in 1..Len(handles) : handles[h].kind = "fd"

(***************************************************************************)
(* utf8strncpy.                                                            *)
(***************************************************************************)
\* The places of the field, before its first NUL, of a byte outside 0..127.
NonAscii ==
    {i \in 1..input.n : /\ \A j \in 1..i : input.src[j] # 0
                        /\ input.src[i] \notin 0..127}

\* C19: for a byte outside 0..127 before the first NUL of a field,
\* utf8strncpy logs a warning and still copies the byte.
C19_WarnAndKeep ==
    "utf8strncpy" \in calls
        => \A i \in NonAscii : i \in output.warnings /\ output.dst[i] = input.src[i]

(***************************************************************************)
(* What the enumeration leaves allocated.                                  *)
(***************************************************************************)
\* C20: when libambit_enumerate returns, every record and every duplicated
\* path allocated during the enumeration has been freed or is reachable from
\* the returned list.
C20_EnumerateLeaksNothing ==
    EnumReturned
        => LET listed == Reachable(infos, ret)
           IN  /\ \A a \in 1..Len(infos) : a \in listed \/ infos[a].frees = 1
               /\ \A p \in 1..Len(strs) :
                    \/ strs[p].frees = 1
                    \/ \E a \in listed : infos[a].path = p

====
